---- MODULE Spec2Model ----
(***************************************************************************)
(* Document lifecycle of the Crab editor (src/ice_editor/src/main.rs):     *)
(* the Editor state, Editor::update, and the three asynchronous file       *)
(* operations load_file, pick_file and save_file that the runtime runs as  *)
(* independent tasks and whose results re-enter update as messages.        *)
(***************************************************************************)
EXTENDS Integers, Sequences, FiniteSets, TLC

\* ---------------------------------------------------------------- bounds
MaxLen == 2          \* longest buffer / file text explored
MaxPresses == 2      \* most messages the view produces in one run

\* ------------------------------------------------------------ value sets
DefaultFile == "src/main.rs"
OtherFile == "a.txt"
Paths == {DefaultFile, OtherFile}
NoPath == "None"                       \* Option<PathBuf>::None
OptPaths == Paths \cup {NoPath}

\* a file name that is not valid Unicode (Path::to_str gives None for it);
\* PathBufs are the paths a message may carry
OddFile == "odd-name"
PathBufs == Paths \cup {OddFile}

Newline == "\n"
Letters == {"a"}
Chars == Letters \cup {Newline}

RECURSIVE SeqsUpTo(_)
SeqsUpTo(n) ==
  IF n = 0 THEN {<<>>}
  ELSE LET S == SeqsUpTo(n - 1)
       IN S \cup {Append(s, c) : s \in {t \in S : Len(t) = n - 1}, c \in Chars}
Texts == SeqsUpTo(MaxLen)

\* what a file may hold when the program starts
InitTexts == {t \in Texts : Len(t) = MaxLen /\ t[1] \in Letters}

\* ------------------------------------------------ text on disk (UTF-8)
\* A String is written as its UTF-8 bytes and read back by decoding them.
Wide == "e-acute"                      \* U+00E9, two bytes in UTF-8
AllChars == Chars \cup {Wide}
CodePoint(c) == CASE c = "a" -> 97 [] c = Newline -> 10 [] c = Wide -> 233
CharOf(cp) == CHOOSE c \in AllChars : CodePoint(c) = cp

\* a slip: one byte per character (Latin-1), not UTF-8
Utf8_OneByte(c) == <<CodePoint(c)>>

Utf8(c) ==
  LET cp == CodePoint(c)
  IN IF cp < 128 THEN <<cp>> ELSE <<192 + (cp \div 64), 128 + (cp % 64)>>

RECURSIVE Encode(_)
Encode(t) == IF t = <<>> THEN <<>> ELSE Utf8(Head(t)) \o Encode(Tail(t))

\* String::from_utf8 as read_to_string applies it: the text, or not ok when
\* the bytes are not well-formed UTF-8
RECURSIVE Decode(_)
Decode(b) ==
  IF b = <<>> THEN [ok |-> TRUE, text |-> <<>>]
  ELSE IF b[1] < 128
  THEN LET r == Decode(Tail(b))
       IN [ok |-> r.ok, text |-> IF r.ok THEN <<CharOf(b[1])>> \o r.text ELSE <<>>]
  ELSE IF b[1] >= 194 /\ b[1] <= 223 /\ Len(b) >= 2 /\ b[2] >= 128 /\ b[2] <= 191
  THEN LET r == Decode(Tail(Tail(b)))
           cp == (b[1] - 192) * 64 + (b[2] - 128)
       IN [ok |-> r.ok, text |-> IF r.ok THEN <<CharOf(cp)>> \o r.text ELSE <<>>]
  ELSE [ok |-> FALSE, text |-> <<>>]

\* enum Error { DialogClosed, IO(io::ErrorKind) }, and Option<Error>::None
IOKinds == {"NotFound", "PermissionDenied", "InvalidData"}
NoError == [tag |-> "None", kind |-> "-"]
DialogClosed == [tag |-> "DialogClosed", kind |-> "-"]
IO(k) == [tag |-> "IO", kind |-> k]
Errors == {DialogClosed} \cup {IO(k) : k \in IOKinds}

\* ------------------------------------------------- text_editor::Content
\* the buffer: its text and the cursor as an offset into the text
ContentNew == [text |-> <<>>, cursor |-> 0]
ContentWith(t) == [text |-> t, cursor |-> 0]
ContentText(c) == c.text

EditActions ==
  {[op |-> "Insert", ch |-> c] : c \in Letters}
  \cup {[op |-> o, ch |-> "-"] : o \in {"Enter", "Backspace", "Delete", "Left", "Right"}}

InsertAt(t, i, c) == SubSeq(t, 1, i) \o <<c>> \o SubSeq(t, i + 1, Len(t))
RemoveAt(t, i) == SubSeq(t, 1, i - 1) \o SubSeq(t, i + 1, Len(t))

\* the buffer bound: an insertion that would exceed MaxLen is not explored
CanEdit(c, a) == a.op \in {"Insert", "Enter"} => Len(c.text) < MaxLen

ContentEdit(c, a) ==
  CASE a.op = "Insert" -> [text |-> InsertAt(c.text, c.cursor, a.ch), cursor |-> c.cursor + 1]
    [] a.op = "Enter" -> [text |-> InsertAt(c.text, c.cursor, Newline), cursor |-> c.cursor + 1]
    [] a.op = "Backspace" ->
         IF c.cursor = 0 THEN c
         ELSE [text |-> RemoveAt(c.text, c.cursor), cursor |-> c.cursor - 1]
    [] a.op = "Delete" ->
         IF c.cursor = Len(c.text) THEN c
         ELSE [text |-> RemoveAt(c.text, c.cursor + 1), cursor |-> c.cursor]
    [] a.op = "Left" -> [c EXCEPT !.cursor = IF c.cursor = 0 THEN 0 ELSE c.cursor - 1]
    [] a.op = "Right" ->
         [c EXCEPT !.cursor = IF c.cursor = Len(c.text) THEN c.cursor ELSE c.cursor + 1]

\* ------------------------------------------------------------- the state
VARIABLES
  path,      \* Editor.path: Option<PathBuf>
  content,   \* Editor.content: text_editor::Content
  error,     \* Editor.error: Option<Error>
  tasks,     \* futures handed to the runtime and not yet delivered, in spawn order
  fs,        \* the filesystem: for each path, whether a file exists and its text
  lastMsg,   \* the message update() processed last (history)
  lastCmd,   \* the Command update() (or new()) returned last (history)
  prev,      \* path, content and error just before the last update() (history)
  presses,   \* messages produced by the view so far (bounds the run)
  origin     \* paths the document was loaded from / saved to since the last New (history)

vars == <<path, content, error, tasks, fs, lastMsg, lastCmd, prev, presses, origin>>

\* a file is absent, or holds bytes
NoFile == [exists |-> FALSE, data |-> <<>>]
File(b) == [exists |-> TRUE, data |-> b]

\* Command<Message>: none, or one future to perform
CmdNone == [kind |-> "none", path |-> NoPath, text |-> <<>>]
CmdLoad(p) == [kind |-> "load_file", path |-> p, text |-> <<>>]
CmdPick == [kind |-> "pick_file", path |-> NoPath, text |-> <<>>]
CmdSave(p, t) == [kind |-> "save_file", path |-> p, text |-> t]

\* Result<(PathBuf, Arc<String>), Error> and Result<(), Error>
NoRes == [ok |-> FALSE, path |-> NoPath, content |-> <<>>, err |-> NoError]
Ok(p, t) == [ok |-> TRUE, path |-> p, content |-> t, err |-> NoError]
Err(e) == [ok |-> FALSE, path |-> NoPath, content |-> <<>>, err |-> e]

\* enum Message.  Two history fields ride along: pos, the position in tasks
\* a completion was delivered from (0 for a message produced by the view),
\* and reqErr, Editor.error when the Open behind a cancelled pick was pressed
NoAction == [op |-> "-", ch |-> "-"]
MsgStartup == [type |-> "Startup", res |-> NoRes, action |-> NoAction, pos |-> 0, reqErr |-> NoError]
MsgEdit(a) == [type |-> "Edit", res |-> NoRes, action |-> a, pos |-> 0, reqErr |-> NoError]
MsgOpen == [type |-> "Open", res |-> NoRes, action |-> NoAction, pos |-> 0, reqErr |-> NoError]
MsgNew == [type |-> "New", res |-> NoRes, action |-> NoAction, pos |-> 0, reqErr |-> NoError]
MsgSave == [type |-> "Save", res |-> NoRes, action |-> NoAction, pos |-> 0, reqErr |-> NoError]
MsgFileOpened(r, i, e) ==
  [type |-> "FileOpened", res |-> r, action |-> NoAction, pos |-> i, reqErr |-> e]
MsgFileSaved(r, i) ==
  [type |-> "FileSaved", res |-> r, action |-> NoAction, pos |-> i, reqErr |-> NoError]

\* ------------------------------------------------------ Editor::update
\* each arm maps the editor state s = [path, content, error] to the new
\* state and the returned command
Out(p, c, e, cmd) == [path |-> p, content |-> c, error |-> e, cmd |-> cmd]

\* a slip: the error is not cleared when editing resumes
OnEdit_KeepsError(s, a) == Out(s.path, ContentEdit(s.content, a), s.error, CmdNone)

OnEdit(s, a) == Out(s.path, ContentEdit(s.content, a), NoError, CmdNone)

\* a slip: pressing Open clears the error
OnOpen_ClearsError(s) == Out(s.path, s.content, NoError, CmdPick)

OnOpen(s) == Out(s.path, s.content, s.error, CmdPick)

\* a slip: the cursor stays where it was
OnFileOpenedOk_KeepsCursor(s, p, t) ==
  Out(p, [text |-> t, cursor |-> IF s.content.cursor <= Len(t) THEN s.content.cursor ELSE Len(t)],
      s.error, CmdNone)

OnFileOpenedOk(s, p, t) == Out(p, ContentWith(t), s.error, CmdNone)

\* a slip: only the buffer is reset
OnNew_KeepsPath(s) == Out(s.path, ContentNew, s.error, CmdNone)

OnNew(s) == Out(NoPath, ContentNew, s.error, CmdNone)

OnSave(s) == Out(s.path, s.content, s.error, CmdSave(s.path, ContentText(s.content)))

\* a variant: a successful save gives a pathless document a name
OnFileSavedOk_NamesDocument(s) ==
  Out(IF s.path = NoPath THEN DefaultFile ELSE s.path, s.content, NoError, CmdNone)

OnFileSavedOk(s) == Out(s.path, s.content, NoError, CmdNone)

\* a slip: a failed save forgets the document's path
OnFileSavedErr_DropsPath(s, e) == Out(NoPath, s.content, e, CmdNone)

OnFileSavedErr(s, e) == Out(s.path, s.content, e, CmdNone)

\* a variant: a dismissed dialog is not recorded as an error
OnFileOpenedErr_IgnoresCancel(s, e) ==
  Out(s.path, s.content, IF e = DialogClosed THEN s.error ELSE e, CmdNone)

OnFileOpenedErr(s, e) == Out(s.path, s.content, e, CmdNone)

\* the arms of the match, in source order, and the pattern of each
ArmOrder ==
  <<"Edit", "Open", "FileOpenedOk", "New", "Save", "FileSavedOk", "FileSavedErr",
    "FileOpenedErr">>

\* a slip: the last arm catches only the dismissed dialog
Matches_OnlyCancel(k, m) ==
  CASE k = "Edit" -> m.type = "Edit"
    [] k = "Open" -> m.type = "Open"
    [] k = "FileOpenedOk" -> m.type = "FileOpened" /\ m.res.ok
    [] k = "New" -> m.type = "New"
    [] k = "Save" -> m.type = "Save"
    [] k = "FileSavedOk" -> m.type = "FileSaved" /\ m.res.ok
    [] k = "FileSavedErr" -> m.type = "FileSaved" /\ ~m.res.ok
    [] k = "FileOpenedErr" -> m.type = "FileOpened" /\ m.res = Err(DialogClosed)

Matches(k, m) ==
  CASE k = "Edit" -> m.type = "Edit"
    [] k = "Open" -> m.type = "Open"
    [] k = "FileOpenedOk" -> m.type = "FileOpened" /\ m.res.ok
    [] k = "New" -> m.type = "New"
    [] k = "Save" -> m.type = "Save"
    [] k = "FileSavedOk" -> m.type = "FileSaved" /\ m.res.ok
    [] k = "FileSavedErr" -> m.type = "FileSaved" /\ ~m.res.ok
    [] k = "FileOpenedErr" -> m.type = "FileOpened" /\ ~m.res.ok

\* the arms whose pattern matches m, and the one the match takes: the first
Arm(m) == {i \in 1..Len(ArmOrder) : Matches(ArmOrder[i], m)}
FirstArm(m) == ArmOrder[CHOOSE i \in Arm(m) : \A j \in Arm(m) : i <= j]

update(s, m) ==
  LET k == FirstArm(m)
  IN CASE k = "Edit" -> OnEdit(s, m.action)
       [] k = "Open" -> OnOpen(s)
       [] k = "FileOpenedOk" -> OnFileOpenedOk(s, m.res.path, m.res.content)
       [] k = "New" -> OnNew(s)
       [] k = "Save" -> OnSave(s)
       [] k = "FileSavedOk" -> OnFileSavedOk(s)
       [] k = "FileSavedErr" -> OnFileSavedErr(s, m.res.err)
       [] k = "FileOpenedErr" -> OnFileOpenedErr(s, m.res.err)

\* -------------------------------------------- Editor::view, status_bar
\* Path::to_str: the path as text, None (NoPath) when it is not valid Unicode
ValidUnicode(p) == p # OddFile
ToStr(p) == IF p # NoPath /\ ValidUnicode(p) THEN p ELSE NoPath

\* io::ErrorKind's Display
ErrorToString(k) ==
  CASE k = "NotFound" -> "entity not found"
    [] k = "PermissionDenied" -> "permission denied"
    [] k = "InvalidData" -> "invalid data"

Text(kind, str) == [shows |-> kind, text |-> str]

\* a slip: any error, the dismissed dialog included, is shown as an error
status_AnyError(s) ==
  IF s.error # NoError
  THEN Text("error", IF s.error.tag = "IO" THEN ErrorToString(s.error.kind) ELSE "dialog closed")
  ELSE IF ToStr(s.path) # NoPath THEN Text("path", ToStr(s.path))
  ELSE Text("label", "New File")

\* the status text: what it shows (an error message, the path or the
\* new-file label) and the string
status(s) ==
  IF s.error.tag = "IO" THEN Text("error", ErrorToString(s.error.kind))
  ELSE IF ToStr(s.path) # NoPath THEN Text("path", ToStr(s.path))
  ELSE Text("label", "New File")

\* ------------------------------------------------ the asynchronous tasks
\* A task is one future given to Command::perform: "pending" until its
\* dialog is answered and its file access has run, then "done" (resolved,
\* message not yet delivered).  path and text are the future's arguments.
\* reqErr, the error held when Open was pressed, is a history field; a
\* resolved save keeps in path the file it wrote, also as history.  asked
\* (a native dialog was shown) and choice (its answer, NoPath when it was
\* dismissed or never shown) are history of the resolution.
Task(k, p, t, e) ==
  [kind |-> k, stage |-> "pending", path |-> p, text |-> t, res |-> NoRes, reqErr |-> e,
   asked |-> FALSE, choice |-> NoPath]

\* the future a command starts; e is Editor.error when it is spawned
Spawn(cmd, e) ==
  Task(cmd.kind, cmd.path, cmd.text, IF cmd.kind = "pick_file" THEN e ELSE NoError)

\* a variant: performing a command aborts the futures still in flight
Perform_Aborts(ts, cmd, e) == IF cmd.kind = "none" THEN ts ELSE <<Spawn(cmd, e)>>

Perform(ts, cmd, e) == IF cmd.kind = "none" THEN ts ELSE Append(ts, Spawn(cmd, e))

Remove(ts, i) == SubSeq(ts, 1, i - 1) \o SubSeq(ts, i + 1, Len(ts))

\* load_file: read_to_string(&path), the io::Error mapped to Error::IO(kind);
\* denied is the environment refusing the read of an existing file
\* a slip: a missing file reads as an empty one
load_file_MissingIsEmpty(p, f, denied) ==
  IF ~f[p].exists THEN Ok(p, <<>>)
  ELSE IF denied THEN Err(IO("PermissionDenied"))
  ELSE IF ~Decode(f[p].data).ok THEN Err(IO("InvalidData"))
  ELSE Ok(p, Decode(f[p].data).text)

load_file(p, f, denied) ==
  IF ~f[p].exists THEN Err(IO("NotFound"))
  ELSE IF denied THEN Err(IO("PermissionDenied"))
  ELSE IF ~Decode(f[p].data).ok THEN Err(IO("InvalidData"))
  ELSE Ok(p, Decode(f[p].data).text)

\* pick_file: choice is the dialog's answer, NoPath when it is dismissed
\* a slip: a dismissed dialog is reported as a missing file
pick_file_CancelIsNotFound(choice, f, denied) ==
  IF choice = NoPath THEN Err(IO("NotFound")) ELSE load_file(choice, f, denied)

pick_file(choice, f, denied) ==
  IF choice = NoPath THEN Err(DialogClosed) ELSE load_file(choice, f, denied)

\* save_file: the result, whether the save dialog was shown, the file
\* written (NoPath if none) and the filesystem afterwards; choice is the
\* save dialog's answer, asked for only when no path is given; denied is
\* the environment refusing the write
SaveOut(r, a, w, f) == [res |-> r, asked |-> a, wrote |-> w, fs |-> f]

\* a slip: a pathless save goes to the default file without asking
save_file_DefaultsPath(p, t, choice, f, denied) ==
  LET target == IF p # NoPath THEN p ELSE DefaultFile
  IN IF denied THEN SaveOut(Err(IO("PermissionDenied")), FALSE, NoPath, f)
     ELSE SaveOut(Ok(NoPath, <<>>), FALSE, target, [f EXCEPT ![target] = File(Encode(t))])

\* a slip: the file is created but the text is not written to it
save_file_Truncates(p, t, choice, f, denied) ==
  LET asked == p = NoPath
      target == IF p # NoPath THEN p ELSE choice
  IN IF target = NoPath THEN SaveOut(Err(DialogClosed), asked, NoPath, f)
     ELSE IF denied THEN SaveOut(Err(IO("PermissionDenied")), asked, NoPath, f)
     ELSE SaveOut(Ok(NoPath, <<>>), asked, target, [f EXCEPT ![target] = File(<<>>)])

save_file(p, t, choice, f, denied) ==
  LET asked == p = NoPath
      target == IF p # NoPath THEN p ELSE choice
  IN IF target = NoPath THEN SaveOut(Err(DialogClosed), asked, NoPath, f)
     ELSE IF denied THEN SaveOut(Err(IO("PermissionDenied")), asked, NoPath, f)
     ELSE SaveOut(Ok(NoPath, <<>>), asked, target, [f EXCEPT ![target] = File(Encode(t))])

\* ----------------------------------------------------------------- Init
\* Editor::new: empty document, and load_file(default_file()) performed
Init ==
  /\ path = NoPath
  /\ content = ContentNew
  /\ error = NoError
  /\ lastCmd = CmdLoad(DefaultFile)
  /\ tasks = Perform(<<>>, CmdLoad(DefaultFile), NoError)
  /\ fs \in [Paths -> {NoFile} \cup {File(Encode(t)) : t \in InitTexts}]
  /\ lastMsg = MsgStartup
  /\ prev = [path |-> NoPath, content |-> ContentNew, error |-> NoError]
  /\ presses = 0
  /\ origin = {}

Editor == [path |-> path, content |-> content, error |-> error]

\* one turn of the runtime's loop: update() runs on message m, its
\* assignments take effect and the returned command is performed; ts is
\* the tasks still in flight
Dispatch(m, ts) ==
  LET o == update(Editor, m)
  IN /\ path' = o.path
     /\ content' = o.content
     /\ error' = o.error
     /\ tasks' = Perform(ts, o.cmd, error)
     /\ lastCmd' = o.cmd
     /\ lastMsg' = m
     /\ prev' = Editor

\* ------------------------------------------------- messages of the view
Press ==
  /\ presses < MaxPresses
  /\ presses' = presses + 1

Edit(a) ==
  /\ CanEdit(content, a)
  /\ Press
  /\ Dispatch(MsgEdit(a), tasks)
  /\ UNCHANGED <<fs, origin>>

New ==
  /\ Press
  /\ Dispatch(MsgNew, tasks)
  /\ origin' = {}
  /\ UNCHANGED fs

Open ==
  /\ Press
  /\ Dispatch(MsgOpen, tasks)
  /\ UNCHANGED <<fs, origin>>

Save ==
  /\ Press
  /\ Dispatch(MsgSave, tasks)
  /\ UNCHANGED <<fs, origin>>

\* ------------------------------------------------ the futures resolving
Resolved(t, r, p, e, a, c) ==
  [t EXCEPT !.stage = "done", !.res = r, !.path = p, !.text = <<>>, !.reqErr = e,
            !.asked = a, !.choice = c]

RunLoad(i, denied) ==
  /\ tasks[i].kind = "load_file" /\ tasks[i].stage = "pending"
  /\ tasks' = [tasks EXCEPT ![i] =
                 Resolved(@, load_file(tasks[i].path, fs, denied), NoPath, NoError,
                          FALSE, NoPath)]
  /\ UNCHANGED <<path, content, error, fs, lastMsg, lastCmd, prev, presses, origin>>

RunPick(i, choice, denied) ==
  /\ tasks[i].kind = "pick_file" /\ tasks[i].stage = "pending"
  /\ LET r == pick_file(choice, fs, denied)
     IN tasks' = [tasks EXCEPT ![i] =
          Resolved(@, r, NoPath, IF r = Err(DialogClosed) THEN tasks[i].reqErr ELSE NoError,
                   TRUE, choice)]
  /\ UNCHANGED <<path, content, error, fs, lastMsg, lastCmd, prev, presses, origin>>

RunSave(i, choice, denied) ==
  /\ tasks[i].kind = "save_file" /\ tasks[i].stage = "pending"
  /\ tasks[i].path # NoPath => choice = NoPath      \* no dialog, no answer
  /\ LET o == save_file(tasks[i].path, tasks[i].text, choice, fs, denied)
     IN /\ tasks' = [tasks EXCEPT ![i] =
             Resolved(@, o.res, o.wrote, NoError, o.asked, IF o.asked THEN choice ELSE NoPath)]
        /\ fs' = o.fs
  /\ UNCHANGED <<path, content, error, lastMsg, lastCmd, prev, presses, origin>>

\* the runtime hands a resolved future's output to update(), wrapped in the
\* message constructor given to Command::perform
Deliver(i) ==
  LET t == tasks[i]
      m == IF t.kind = "save_file" THEN MsgFileSaved(t.res, i)
           ELSE MsgFileOpened(t.res, i, t.reqErr)
  IN /\ t.stage = "done"
     /\ Dispatch(m, Remove(tasks, i))
     /\ origin' = IF m.type = "FileOpened" /\ m.res.ok THEN origin \cup {m.res.path}
                  ELSE IF m.type = "FileSaved" /\ m.res.ok THEN origin \cup {t.path}
                  ELSE origin
     /\ UNCHANGED <<fs, presses>>

Next ==
  \/ \E a \in EditActions : Edit(a)
  \/ New
  \/ Open
  \/ Save
  \/ \E i \in 1..Len(tasks), d \in BOOLEAN : RunLoad(i, d)
  \/ \E i \in 1..Len(tasks), c \in OptPaths, d \in BOOLEAN : RunPick(i, c, d)
  \/ \E i \in 1..Len(tasks), c \in OptPaths, d \in BOOLEAN : RunSave(i, c, d)
  \/ \E i \in 1..Len(tasks) : Deliver(i)

Spec == Init /\ [][Next]_vars

\* the runtime polls every future it was given and delivers its output, and
\* the user eventually answers a dialog: a step of the futures that stays
\* possible is eventually taken
Gateway ==
  \/ \E i \in 1..Len(tasks), d \in BOOLEAN : RunLoad(i, d)
  \/ \E i \in 1..Len(tasks), c \in OptPaths, d \in BOOLEAN : RunPick(i, c, d)
  \/ \E i \in 1..Len(tasks), c \in OptPaths, d \in BOOLEAN : RunSave(i, c, d)
  \/ \E i \in 1..Len(tasks) : Deliver(i)

\* the program started beside one stored file; reads and writes still
\* succeed or are refused, and every dialog answer stays possible
FairInit ==
  /\ Init
  /\ fs = [p \in Paths |-> IF p = DefaultFile THEN File(Encode(CHOOSE t \in InitTexts : TRUE))
                                               ELSE NoFile]

FairSpec == FairInit /\ [][Next]_vars /\ WF_vars(Gateway)

\* ================================================================ claims
Completed == lastMsg.type \in {"FileOpened", "FileSaved"}
Succeeded == Completed /\ lastMsg.res.ok
Failed == Completed /\ ~lastMsg.res.ok
Cancelled == lastMsg.type = "FileOpened" /\ lastMsg.res = Err(DialogClosed)

\* C1: right after update() has processed FileOpened(Ok(..)) or
\* FileSaved(Ok(())), error is None, whatever it was before.
C1_SuccessClearsError == Succeeded => error = NoError

\* C2: path is Some(p) exactly when, since the last New (or startup), the
\* document was loaded from p by a FileOpened(Ok) or saved to p by a
\* FileSaved(Ok): no such event leaves path None, and a path held is one of
\* those files.
C2_PathIffLoadedOrSaved ==
  /\ path = NoPath <=> origin = {}
  /\ path # NoPath => path \in origin

\* C3: at most one file operation is in flight: the futures performed whose
\* message has not been processed yet number at most one.
C3_AtMostOneInFlight == Len(tasks) <= 1

\* C4: completions are processed in the order their requests were
\* dispatched: the future whose message update() processes is the oldest
\* one in flight.
C4_CompletionsInDispatchOrder == lastMsg.pos <= 1

\* C5: a failed completion, FileOpened(Err(e)) or FileSaved(Err(e)), leaves
\* path and content (text and cursor) as they were, stores e in error and
\* returns Command::none().
C5_FailedCompletionKeepsDocument ==
  Failed => /\ path = prev.path
            /\ content = prev.content
            /\ error = lastMsg.res.err
            /\ lastCmd = CmdNone

C5_Witness ==
  /\ Failed
  /\ path # NoPath
  /\ content.text # <<>>
  /\ error # prev.error

\* C6 as stated: after the open dialog is dismissed, the state after the
\* completion is unchanged and error equals what it was just before Open
\* was pressed.
C6_CancelKeepsError ==
  Cancelled => /\ path = prev.path
               /\ content = prev.content
               /\ error = lastMsg.reqErr

\* C6 as amended: after the open dialog is dismissed, the completion leaves
\* path and content unchanged, returns no command and sets error to
\* Some(DialogClosed), replacing whatever error was held before.
C6_CancelSetsDialogClosed ==
  Cancelled => /\ path = prev.path
               /\ content = prev.content
               /\ error = DialogClosed
               /\ lastCmd = CmdNone

C6_Witness ==
  /\ Cancelled
  /\ lastMsg.reqErr = IO("NotFound")
  /\ prev.error = IO("NotFound")
  /\ error = DialogClosed

\* C7: after any Edit(action), error is None, path is unchanged and no
\* command is returned, whatever error was held before.
C7_EditClearsError ==
  lastMsg.type = "Edit" => /\ error = NoError
                           /\ path = prev.path
                           /\ lastCmd = CmdNone

C7_Witness ==
  /\ lastMsg.type = "Edit"
  /\ prev.error \in Errors
  /\ error = NoError

\* C8: after New, path is None and the buffer is empty, and no command is
\* returned, whatever the state before and whatever is in flight.
C8_NewResetsDocument ==
  lastMsg.type = "New" => /\ path = NoPath
                          /\ content = ContentNew
                          /\ lastCmd = CmdNone

C8_Witness ==
  /\ lastMsg.type = "New"
  /\ prev.path # NoPath
  /\ prev.content.text # <<>>
  /\ Len(tasks) >= 1
  /\ path = NoPath

\* C9: after New the state equals the startup state in all three fields:
\* path None, buffer empty, error None.
C9_NewEqualsStartupState ==
  lastMsg.type = "New" => /\ path = NoPath
                          /\ content = ContentNew
                          /\ error = NoError

\* C10: the state new() builds has an empty buffer, no path, no error and
\* exactly one load_file(default_file()) in flight; when the default file
\* does not exist and that load's completion is the first message
\* processed, afterwards error is Some(IO(NotFound)), the buffer is still
\* empty and path is still None.
C10_StartupMissingDefault ==
  /\ lastMsg = MsgStartup =>
       /\ path = NoPath /\ content = ContentNew /\ error = NoError
       /\ lastCmd = CmdLoad(DefaultFile)
       /\ Len(tasks) = 1 /\ tasks[1].kind = "load_file"
  /\ (presses = 0 /\ lastMsg.type = "FileOpened" /\ ~fs[DefaultFile].exists) =>
       /\ error = IO("NotFound")
       /\ content = ContentNew
       /\ path = NoPath
       /\ tasks = <<>>

C10_Witness ==
  /\ presses = 0
  /\ lastMsg.type = "FileOpened"
  /\ ~fs[DefaultFile].exists
  /\ error = IO("NotFound")

\* ------------------------------------------- save, then load (C12)
\* The runs of RoundTrip start right after Save was pressed on a document
\* that has a path: that save is the only future in flight.  It resolves,
\* and if it succeeded the file is loaded again with load_file.
RoundTripChars == AllChars
RoundTripTexts ==
  UNION {[1..n -> RoundTripChars] : n \in 0..MaxLen}

RoundTripInit ==
  /\ path \in Paths
  /\ content \in {ContentWith(t) : t \in RoundTripTexts}
  /\ error = NoError
  /\ lastMsg = MsgSave
  /\ lastCmd = OnSave(Editor).cmd
  /\ tasks = Perform(<<>>, lastCmd, NoError)
  /\ fs \in [Paths -> {NoFile, File(Encode(<<"a">>)), File(<<195>>)}]
  /\ prev = Editor
  /\ presses = 0
  /\ origin = {path}

Reload ==
  /\ Len(tasks) = 1
  /\ tasks[1].stage = "done" /\ tasks[1].res.ok
  /\ tasks' = Perform(tasks, CmdLoad(tasks[1].path), NoError)
  /\ UNCHANGED <<path, content, error, fs, lastMsg, lastCmd, prev, presses, origin>>

RoundTripNext ==
  \/ \E d \in BOOLEAN : RunSave(1, NoPath, d)
  \/ Reload
  \/ \E i \in 2..Len(tasks), d \in BOOLEAN : RunLoad(i, d)

RoundTrip == RoundTripInit /\ [][RoundTripNext]_vars

\* C12: after a successful save_file(Some(p), t), with no other write to p,
\* load_file(p) returns Ok((p, t)): the same path and the text unchanged,
\* for every p and every t, the empty text, multi-line text and text with
\* multi-byte characters included (the read itself being permitted).
C12_SaveLoadRoundTrip ==
  (Len(tasks) = 2 /\ tasks[2].stage = "done") =>
     \/ tasks[2].res = Ok(lastCmd.path, lastCmd.text)
     \/ tasks[2].res = Err(IO("PermissionDenied"))

C12_Witness ==
  /\ Len(tasks) = 2 /\ tasks[2].stage = "done"
  /\ tasks[2].res.ok
  /\ tasks[2].res.content = <<Wide, Newline>>

\* ------------------------------------- update() on its own (C13, C14)
\* The runs of Reducer start from the state new() builds and hand update()
\* any message at all, in any order: every value of enum Message over the
\* bounded payloads.  The command returned is recorded, not performed, and
\* no other history is kept.
Messages ==
  {MsgEdit(a) : a \in EditActions}
  \cup {MsgOpen, MsgNew, MsgSave}
  \cup {MsgFileOpened(Ok(p, t), 0, NoError) : p \in PathBufs, t \in Texts}
  \cup {MsgFileOpened(Err(e), 0, NoError) : e \in Errors}
  \cup {MsgFileSaved(Ok(NoPath, <<>>), 0)}
  \cup {MsgFileSaved(Err(e), 0) : e \in Errors}

Reduce(m) ==
  /\ m.type = "Edit" => CanEdit(content, m.action)
  /\ LET o == update(Editor, m)
     IN /\ path' = o.path
        /\ content' = o.content
        /\ error' = o.error
        /\ lastCmd' = o.cmd
  /\ UNCHANGED <<tasks, fs, lastMsg, prev, presses, origin>>

ReducerInit == Init /\ fs = [p \in Paths |-> NoFile]

ReducerNext == \E m \in Messages : Reduce(m)

Reducer == ReducerInit /\ [][ReducerNext]_vars

ValidContent(c) ==
  /\ c.cursor \in 0..Len(c.text)
  /\ \A i \in 1..Len(c.text) : c.text[i] \in AllChars

ValidOut(o) ==
  /\ o.path \in PathBufs \cup {NoPath}
  /\ ValidContent(o.content)
  /\ o.error \in Errors \cup {NoError}
  /\ o.cmd.kind \in {"none", "pick_file", "save_file"}

\* C13: update() is total: in every reachable state, every message (Edit,
\* New, Open, Save, FileOpened Ok and Err, FileSaved Ok and Err) matches
\* exactly one arm, and that arm yields a well-formed state and command.
C13_UpdateIsTotal ==
  \A m \in Messages : Cardinality(Arm(m)) = 1 /\ ValidOut(update(Editor, m))

C13_Witness ==
  /\ path # NoPath
  /\ content.text # <<>>
  /\ error # NoError
  /\ lastCmd.kind = "save_file"
  /\ \A m \in Messages : Cardinality(Arm(m)) = 1

\* C14 as stated: the status shows an error message exactly when error is
\* Some(IO(kind)); when error is Some(DialogClosed) or None it shows the
\* current path, or the new-file label when path is None.
C14_StatusShowsPathUnlessIO ==
  /\ status(Editor).shows = "error" <=> error.tag = "IO"
  /\ error.tag # "IO" =>
       status(Editor) = IF path = NoPath THEN Text("label", "New File") ELSE Text("path", path)

\* C14 as amended: the status shows an error message exactly when error is
\* Some(IO(kind)); when error is Some(DialogClosed) or None it shows the
\* current path, or the new-file label when path is None or is not valid
\* Unicode, exactly as when no error is set.
C14_StatusShowsErrorOnlyForIO ==
  /\ status(Editor).shows = "error" <=> error.tag = "IO"
  /\ error.tag # "IO" =>
       /\ status(Editor) = IF path = NoPath \/ ~ValidUnicode(path)
                           THEN Text("label", "New File") ELSE Text("path", path)
       /\ status(Editor) = status([Editor EXCEPT !.error = NoError])

C14_Witness ==
  /\ error = DialogClosed
  /\ path = OtherFile
  /\ status(Editor) = Text("path", OtherFile)

\* C15: a successful load replaces the document whatever the state is:
\* after FileOpened(Ok((p, c))), path is Some(p), the buffer holds c with
\* the cursor at the start, and no command is returned, also when Edit or
\* New were processed after the load was requested.
C15_LoadReplacesDocument ==
  (lastMsg.type = "FileOpened" /\ lastMsg.res.ok) =>
     /\ path = lastMsg.res.path
     /\ content = [text |-> lastMsg.res.content, cursor |-> 0]
     /\ lastCmd = CmdNone

C15_Witness ==
  /\ lastMsg.type = "FileOpened" /\ lastMsg.res.ok
  /\ presses > 0
  /\ prev.content.cursor > 0
  /\ lastMsg.res.content # <<>>
  /\ prev.content.text # lastMsg.res.content
  /\ content.cursor = 0

\* a step in which the view produced the message update() processed, and
\* one in which a future's completion was processed
Pressed == presses' # presses
Delivered == presses' = presses /\ Len(tasks') < Len(tasks)

\* the tasks in flight are kept and one future of kind k is added
AddsOne(k) ==
  /\ Len(tasks') = Len(tasks) + 1
  /\ SubSeq(tasks', 1, Len(tasks)) = tasks
  /\ tasks'[Len(tasks')].kind = k
  /\ tasks'[Len(tasks')].stage = "pending"

\* C16: Open and Save leave path, content and error unchanged and perform
\* exactly one future, pick_file() and save_file(path, buffer text) with
\* the current path and text; Edit, New and the four completions perform
\* none.
C16_OnlyRequestsSchedule ==
  [][/\ (Pressed /\ lastMsg'.type = "Open") =>
          /\ Editor' = Editor
          /\ lastCmd' = CmdPick
          /\ AddsOne("pick_file")
     /\ (Pressed /\ lastMsg'.type = "Save") =>
          /\ Editor' = Editor
          /\ lastCmd' = CmdSave(path, ContentText(content))
          /\ AddsOne("save_file")
          /\ tasks'[Len(tasks')].path = path
          /\ tasks'[Len(tasks')].text = ContentText(content)
     /\ (Pressed /\ lastMsg'.type \in {"Edit", "New"}) =>
          lastCmd' = CmdNone /\ tasks' = tasks
     /\ Delivered =>
          lastCmd' = CmdNone /\ Len(tasks') = Len(tasks) - 1]_vars

C16_Witness ==
  /\ lastMsg.type = "Save"
  /\ path # NoPath
  /\ content.text # <<>>
  /\ error # NoError
  /\ lastCmd = CmdSave(path, ContentText(content))
  /\ tasks # <<>> /\ tasks[Len(tasks)].text = ContentText(content)

\* C17: no cancellation.  A future in flight leaves tasks only by having
\* its own output delivered to update(), as FileOpened for load_file and
\* pick_file and as FileSaved for save_file; no other step (New, Edit,
\* another Open or Save, another future) drops or restarts it; and every
\* future in flight is eventually delivered.
C17_NoCancellation ==
  /\ [][IF Len(tasks') < Len(tasks)
        THEN LET i == lastMsg'.pos
             IN /\ i \in 1..Len(tasks)
                /\ tasks[i].stage = "done"
                /\ tasks' = Remove(tasks, i)
                /\ lastMsg'.res = tasks[i].res
                /\ lastMsg'.type =
                     IF tasks[i].kind = "save_file" THEN "FileSaved" ELSE "FileOpened"
        ELSE \A i \in 1..Len(tasks) :
                /\ tasks'[i].kind = tasks[i].kind
                /\ tasks[i].stage = "done" => tasks'[i] = tasks[i]]_vars
  /\ (tasks # <<>>) ~> (tasks = <<>>)

C17_Witness ==
  /\ Completed
  /\ tasks = <<>>
  /\ presses >= 2
  /\ prev.content # ContentNew

\* a step in which the future at position i of tasks resolves
Resolves(i) ==
  /\ Len(tasks') = Len(tasks)
  /\ tasks[i].stage = "pending"
  /\ tasks'[i].stage = "done"

\* C11: a save invoked with no path always shows the save dialog before
\* any write; if the dialog is dismissed the result is Err(DialogClosed)
\* and no file changes; otherwise only the file the user chose may change,
\* and on success it holds the text given to the save.
C11_SaveAlwaysAsks ==
  [][\A i \in 1..Len(tasks) :
       (Resolves(i) /\ tasks[i].kind = "save_file" /\ tasks[i].path = NoPath) =>
         LET t == tasks'[i]
         IN /\ t.asked
            /\ IF t.choice = NoPath
               THEN t.res = Err(DialogClosed) /\ fs' = fs
               ELSE /\ t.res # Err(DialogClosed)
                    /\ \A q \in Paths \ {t.choice} : fs'[q] = fs[q]
                    /\ IF t.res.ok THEN fs'[t.choice] = File(Encode(tasks[i].text))
                       ELSE fs' = fs]_vars

C11_Witness ==
  \E i \in 1..Len(tasks) :
     /\ tasks[i].kind = "save_file" /\ tasks[i].stage = "done"
     /\ tasks[i].asked /\ tasks[i].choice = OtherFile
     /\ tasks[i].res.ok /\ tasks[i].path = OtherFile
     /\ fs[OtherFile].exists

\* C18: the errors of the three futures.  A future ends in
\* Err(DialogClosed) exactly when it showed a dialog and the dialog was
\* dismissed; load_file shows no dialog and fails only with Error::IO;
\* pick_file shows one and, given an answer, ends as load_file on the
\* chosen path does; save_file with a path shows no dialog and fails only
\* with Error::IO.
IsIO(r) == ~r.ok /\ r.err.tag = "IO" /\ r.err.kind \in IOKinds

C18_ErrorTaxonomy ==
  [][\A i \in 1..Len(tasks) :
       Resolves(i) =>
         LET t == tasks[i]
             d == tasks'[i]
         IN /\ d.res = Err(DialogClosed) <=> (d.asked /\ d.choice = NoPath)
            /\ d.res.ok \/ d.res = Err(DialogClosed) \/ IsIO(d.res)
            /\ t.kind = "load_file" =>
                  /\ ~d.asked
                  /\ d.res.ok \/ IsIO(d.res)
            /\ t.kind = "pick_file" =>
                  /\ d.asked
                  /\ d.choice # NoPath =>
                        \E denied \in BOOLEAN : d.res = load_file(d.choice, fs, denied)
            /\ (t.kind = "save_file" /\ t.path # NoPath) =>
                  /\ ~d.asked
                  /\ d.res.ok \/ IsIO(d.res)]_vars

C18_Witness ==
  /\ \E i \in 1..Len(tasks) :
        /\ tasks[i].kind = "pick_file" /\ tasks[i].stage = "done"
        /\ tasks[i].choice = OtherFile /\ tasks[i].res = Err(IO("NotFound"))
  /\ \E j \in 1..Len(tasks) :
        /\ tasks[j].kind = "save_file" /\ tasks[j].stage = "done"
        /\ ~tasks[j].asked /\ tasks[j].res = Err(IO("PermissionDenied"))

\* C19: a save writes the text and the path it was given when Save was
\* pressed.  The future spawned by Save on a document with path p carries
\* p and the buffer's text of that moment; no later Edit, New or
\* FileOpened changes what a pending save carries; when its write
\* succeeds exactly p changes, to that text, and load_file(p) then
\* returns it; FileSaved(Ok(())) leaves error = None.
PendingSave(t) == t.kind = "save_file" /\ t.stage = "pending" /\ t.path # NoPath

C19_SaveWritesSnapshot ==
  [][/\ (Pressed /\ lastMsg'.type = "Save" /\ path # NoPath) =>
          LET n == tasks'[Len(tasks')]
          IN PendingSave(n) /\ n.path = path /\ n.text = ContentText(content)
     /\ \A i \in 1..Len(tasks) :
          PendingSave(tasks[i]) =>
            IF Len(tasks') = Len(tasks) /\ tasks'[i].stage = "done"
            THEN LET p == tasks[i].path
                     t == tasks[i].text
                 IN tasks'[i].res.ok =>
                      /\ tasks'[i].path = p
                      /\ fs' = [fs EXCEPT ![p] = File(Encode(t))]
                      /\ load_file(p, fs', FALSE) = Ok(p, t)
            ELSE \E j \in {i - 1, i} \cap (1..Len(tasks')) : tasks'[j] = tasks[i]
     /\ (lastMsg' # lastMsg /\ lastMsg'.type = "FileSaved" /\ lastMsg'.res.ok) =>
          error' = NoError]_vars

C19_Witness ==
  /\ lastMsg.type \in {"Edit", "New"}
  /\ \E i \in 1..Len(tasks) :
        /\ tasks[i].kind = "save_file" /\ tasks[i].stage = "done"
        /\ ~tasks[i].asked /\ tasks[i].res.ok /\ tasks[i].path \in Paths
        /\ fs[tasks[i].path].exists
        /\ fs[tasks[i].path] # File(Encode(ContentText(content)))
        /\ load_file(tasks[i].path, fs, FALSE).ok

\* C20: FileSaved, Ok or Err, leaves path and content as they were; path
\* changes only to None by New and to the loaded file's path by
\* FileOpened(Ok(..)); so a document without a path stays without one
\* through any save, and every Save pressed on it spawns save_file(None, ..),
\* which shows the save dialog again.
C20_SaveCompletionKeepsPath ==
  [][/\ (Delivered /\ lastMsg'.type = "FileSaved") =>
          path' = path /\ content' = content
     /\ path' # path =>
          \/ Pressed /\ lastMsg'.type = "New" /\ path' = NoPath
          \/ /\ Delivered /\ lastMsg'.type = "FileOpened" /\ lastMsg'.res.ok
             /\ path' = lastMsg'.res.path /\ path' # NoPath
     /\ (Pressed /\ lastMsg'.type = "Save" /\ path = NoPath) =>
          /\ lastCmd' = CmdSave(NoPath, ContentText(content))
          /\ tasks'[Len(tasks')].kind = "save_file"
          /\ tasks'[Len(tasks')].path = NoPath
     /\ \A i \in 1..Len(tasks) :
          (Resolves(i) /\ tasks[i].kind = "save_file" /\ tasks[i].path = NoPath) =>
             tasks'[i].asked]_vars

\* Save pressed again on a pathless document that a save-as already wrote
C20_Witness ==
  /\ lastMsg.type = "Save"
  /\ path = NoPath
  /\ origin # {}
  /\ lastCmd.kind = "save_file" /\ lastCmd.path = NoPath
  /\ tasks # <<>>
  /\ tasks[Len(tasks)].kind = "save_file"
  /\ tasks[Len(tasks)].stage = "pending"
  /\ tasks[Len(tasks)].path = NoPath
====
